---- MODULE Spec2Model ----
(***************************************************************************)
(* The proof-request state machine of the OP Succinct proposer             *)
(* (proposer/op/proposer/prove.go): the ledger of ProofRequest rows, the   *)
(* three passes of the driver tick (ProcessPendingProofs,                  *)
(* RequestQueuedProofs, DeriveAggProofs), the retry policy (RetryRequest)  *)
(* and the background goroutine that RequestQueuedProofs starts.           *)
(*                                                                         *)
(* The ledger (l.db, package proposer/db) and the driver loop are not part *)
(* of the sources at hand; they are modelled from the specification        *)
(* (sections 4.1, 4.4 and 5).                                              *)
(***************************************************************************)
EXTENDS Integers, Sequences, FiniteSets, Bags, TLC

(* ------------------------------ bounds -------------------------------- *)

\* Rows the ledger can hold; an insert into a full ledger fails like any
\* other ledger error.
MaxRecords == 4

\* Goroutines RequestQueuedProofs can start in a run; once they are spent
\* pass B fails on its first query.
MaxSpawns == 3

\* uint64 arithmetic is modelled on a word of WordBits bits (TLC integers
\* are 32 bits wide); the wrap-around of the Go code is kept.
WordBits == 4

(* --------------------------- configuration ---------------------------- *)

\* l.DriverSetup.Cfg.ProofTimeout, in clock units
ProofTimeout == 0

\* Last value of the wall clock: one unit past the timeout.
MaxTime == ProofTimeout + 1

(* ------------------------------- state -------------------------------- *)

VARIABLES
    db,         \* the ledger: sequence of ProofRequest rows, id = index
    tasks,      \* goroutines started by RequestQueuedProofs, in flight
    pc,         \* position of the driver tick
    queue,      \* rows still to visit in the running loop of ProcessPendingProofs
    now,        \* time.Now().Unix()
    maxConcurrent,  \* l.Cfg.MaxConcurrentProofRequests
    spawned,    \* goroutines started so far
    lastRetry,  \* history: the call of RetryRequest made by the last step
    tick,       \* history: how the running tick started and went
    call        \* a call of a function of package utils: arguments and result

vars ==
    <<db, tasks, pc, queue, now, maxConcurrent, spawned, lastRetry, tick, call>>

Word == 2 ^ WordBits

\* uint64 wrap-around
U64(x) == x % Word

NoProof == << >>
SomeProof == <<1>>

\* l2ooContract.LatestBlockNumber()
LatestBlockNumber == 0

\* l2ooContract.NextBlockNumber()
NextBlockNumber == 2

(* ------------------------------ ledger -------------------------------- *)

\* ent.ProofRequest as created by db.NewEntryWithReqAddedTimestamp; parent is
\* history: the id of the request whose retry inserted the row (0: none).
NewEntry(type, start, end, parent) ==
    [type |-> type, start |-> start, end |-> end, status |-> "UNREQ",
     proverId |-> "", proof |-> NoProof, l1hash |-> "", l1num |-> 0,
     reqTime |-> 0, parent |-> parent]

\* A row together with its id, as the queries return it.
Row(d, i) == [id |-> i] @@ d[i]

\* What a loop over query results keeps of a row: its id, ProverRequestID
\* and ProofRequestTime (Type, StartBlock and EndBlock never change and are
\* read from the ledger).
Snap(d, i) ==
    [id |-> i, proverId |-> d[i].proverId, reqTime |-> d[i].reqTime]

Ids(d) == 1 .. Len(d)

\* The ids of a set, in increasing order.
RECURSIVE SortedIds(_)
SortedIds(S) ==
    IF S = {} THEN << >>
    ELSE LET m == CHOOSE x \in S : \A y \in S : x <= y
         IN  <<m>> \o SortedIds(S \ {m})

RowsOf(d, S) == [k \in 1 .. Cardinality(S) |-> Snap(d, SortedIds(S)[k])]

\* db.GetProofsFailedOnServer
GetProofsFailedOnServer(d) ==
    RowsOf(d, {i \in Ids(d) : d[i].status = "FAILED" /\ d[i].proverId = ""})

\* db.GetAllPendingProofs
GetAllPendingProofs(d) ==
    RowsOf(d, {i \in Ids(d) : d[i].status = "REQ" /\ d[i].proverId # ""})

\* db.GetNextUnrequestedProof: 0 when there is none
GetNextUnrequestedProof(d) ==
    LET U == {i \in Ids(d) : d[i].status = "UNREQ"}
    IN  IF U = {} THEN 0 ELSE CHOOSE i \in U : \A j \in U : i <= j

\* db.GetNumberOfProofsWithStatus
GetNumberOfProofsWithStatus(d, status) ==
    Cardinality({i \in Ids(d) : d[i].status = status})

\* db.UpdateProofStatus; the transition to REQ stamps proof_request_time
UpdateProofStatus(d, id, status, t) ==
    [d EXCEPT ![id].status = status,
              ![id].reqTime = IF status = "REQ" THEN t ELSE @]

\* db.SetProverRequestID
SetProverRequestID(d, id, proofId) == [d EXCEPT ![id].proverId = proofId]

\* db.AddProof: the precondition, and the update
AddProofAllowed(d, id) == d[id].status = "REQ"

AddProof(d, id, proof) ==
    [d EXCEPT ![id].proof = proof, ![id].status = "COMPLETE"]

\* db.AddL1BlockInfoToAggRequest
AddL1BlockInfoToAggRequest(d, start, end, num, hash) ==
    [i \in Ids(d) |->
        IF d[i].type = "AGG" /\ d[i].start = start /\ d[i].end = end
        THEN [d[i] EXCEPT !.l1num = num, !.l1hash = hash]
        ELSE d[i]]

\* The COMPLETE SPAN rows among S, ordered by start_block (then id).
RECURSIVE SortByStart(_, _)
SortByStart(d, S) ==
    IF S = {} THEN << >>
    ELSE LET m == CHOOSE x \in S : \A y \in S :
                      \/ d[x].start < d[y].start
                      \/ d[x].start = d[y].start /\ x <= y
         IN  <<m>> \o SortByStart(d, S \ {m})

\* Walk of an ordered list of rows from block `from`: the number of leading
\* rows that follow one another without a gap.
RECURSIVE ContiguousRun(_, _, _, _)
ContiguousRun(d, list, k, from) ==
    IF k > Len(list) \/ d[list[k]].start # from THEN k - 1
    ELSE ContiguousRun(d, list, k + 1, U64(d[list[k]].end + 1))

\* Two rows whose block ranges share a block.
Overlap(a, b) == a.start <= b.end /\ b.start <= a.end

\* The COMPLETE SPAN rows with a range of blocks inside [start, end].
CompleteSpansInside(d, start, end) ==
    {i \in Ids(d) : /\ d[i].type = "SPAN"
                    /\ d[i].status = "COMPLETE"
                    /\ start <= d[i].start
                    /\ d[i].start <= d[i].end
                    /\ d[i].end <= end}

\* The rows of T tile [start, end] without gap or overlap.
Tiles(d, T, start, end) ==
    /\ \A i, j \in T : i # j => ~Overlap(d[i], d[j])
    /\ UNION {d[i].start .. d[i].end : i \in T} = start .. end

\* The sets of COMPLETE SPAN rows that tile [start, end].
Tilings(d, start, end) ==
    {T \in SUBSET CompleteSpansInside(d, start, end) : Tiles(d, T, start, end)}

\* The proofs of the rows of T, ordered by start_block.
ProofsOf(d, T) ==
    [k \in 1 .. Cardinality(T) |-> d[SortByStart(d, T)[k]].proof]

\* db.GetConsecutiveSpanProofs: the lists of proofs it can return, the
\* ordered proofs of COMPLETE SPAN rows that tile [start, end]; it fails
\* when there is none
GetConsecutiveSpanProofs(d, start, end) ==
    {ProofsOf(d, T) : T \in Tilings(d, start, end)}

\* db.TryCreateAggProofFromSpanProofs, the decision: (created, end)
TryCreateAggProofFromSpanProofs(d, from, min_to) ==
    LET S == {i \in Ids(d) : /\ d[i].type = "SPAN"
                             /\ d[i].status = "COMPLETE"
                             /\ d[i].start >= from}
        list == SortByStart(d, S)
        n == ContiguousRun(d, list, 1, from)
        end == IF n = 0 THEN 0 ELSE d[list[n]].end
    IN  IF n > 0 /\ end >= min_to
        THEN [created |-> TRUE, end |-> end]
        ELSE [created |-> FALSE, end |-> 0]

(* --------------------------- retry policy ----------------------------- *)

\* RetryRequest with the second half starting at tmpEnd instead of
\* tmpEnd + 1.
RetryEntriesOverlap(req) ==
    IF req.type = "AGG"
    THEN <<NewEntry("AGG", req.start, req.end, req.id)>>
    ELSE LET tmpStart == req.start
             tmpEnd == U64(tmpStart + (U64(req.end - tmpStart) \div 2))
         IN  <<NewEntry("SPAN", tmpStart, tmpEnd, req.id),
               NewEntry("SPAN", tmpEnd, req.end, req.id)>>

\* RetryRequest without the test of the type: every request is bisected.
RetryEntriesBisectAll(req) ==
    LET tmpStart == req.start
        tmpEnd == U64(tmpStart + (U64(req.end - tmpStart) \div 2))
    IN  <<NewEntry("SPAN", tmpStart, tmpEnd, req.id),
          NewEntry("SPAN", U64(tmpEnd + 1), req.end, req.id)>>

\* RetryRequest: the rows it sets out to insert, in order.
RetryEntries(req) ==
    IF req.type = "AGG"
    THEN <<NewEntry("AGG", req.start, req.end, req.id)>>
    ELSE LET tmpStart == req.start
             tmpEnd == U64(tmpStart + (U64(req.end - tmpStart) \div 2))
         IN  <<NewEntry("SPAN", tmpStart, tmpEnd, req.id),
               NewEntry("SPAN", U64(tmpEnd + 1), req.end, req.id)>>

\* Which insert of RetryRequest fails: 0 for none, k for the k-th. An insert
\* into a full ledger fails.
RetryFailAts(d, req) ==
    LET n == Len(RetryEntries(req))
        room == MaxRecords - Len(d)
    IN  IF room >= n THEN 0 .. n ELSE 1 .. (room + 1)

\* RetryRequest: the ledger after the call; it returns at the first insert
\* that fails.
RetryRequest(d, req, failAt) ==
    LET entries == RetryEntries(req)
        n == IF failAt = 0 THEN Len(entries) ELSE failAt - 1
    IN  d \o SubSeq(entries, 1, n)

\* history of a call of RequestOPSuccinctProof: the body it made for
\* RequestProofFromServer and the row it was called for (path "none": it made
\* none, the call returned before)
NoRequest == [path |-> "none"]

\* history of a turn of the second loop of ProcessPendingProofs that met no
\* error of the ledger: what GetProofStatus returned (status "none": the
\* step is no such turn)
NoPoll == [status |-> "none", proof |-> NoProof]

Polled(status, proof) == [status |-> status, proof |-> proof]

\* history of the call: the request, the length of the ledger before it,
\* whether it returned an error, what made the caller retry, and whether the
\* caller wrote FAILED before
RetryRecord(d, req, failAt, cause) ==
    [id |-> req.id, base |-> Len(d), err |-> failAt # 0, cause |-> cause,
     wrote |-> cause = "poll", polled |-> NoPoll, sent |-> NoRequest]

(* ------------------------------ driver -------------------------------- *)

\* The runs start from a ledger of SPAN rows as range derivation queues
\* them, with a value of MaxConcurrentProofRequests.
InitConfigs ==
    { [ledger |-> <<NewEntry("SPAN", 1, 1, 0)>>, max |-> 1],
      [ledger |-> <<NewEntry("SPAN", 1, 2, 0)>>, max |-> 1],
      [ledger |-> <<NewEntry("SPAN", 1, 1, 0), NewEntry("SPAN", 2, 2, 0),
                    NewEntry("SPAN", 3, 4, 0)>>, max |-> 2] }

NoRetry ==
    [id |-> 0, base |-> 0, err |-> FALSE, cause |-> "none", wrote |-> FALSE,
     polled |-> NoPoll, sent |-> NoRequest]

\* No function of package utils is called by the proposer's tick.
NoCall == [fn |-> "none"]

TickOff == [st |-> "off", head |-> "none", unreq |-> {}]

UnreqSpans(d) ==
    {i \in Ids(d) : d[i].type = "SPAN" /\ d[i].status = "UNREQ"}

SpansWithStatus(d, status) ==
    {i \in Ids(d) : d[i].type = "SPAN" /\ d[i].status = status}

\* history of a tick that starts with no row in REQ, no goroutine in flight
\* and more UNREQ SPAN rows than the cap: the UNREQ SPAN rows, and the type
\* of the row pass B will take.
TickStart(d, tk, max) ==
    IF /\ GetNumberOfProofsWithStatus(d, "REQ") = 0
       /\ tk = EmptyBag
       /\ Cardinality(UnreqSpans(d)) > max
    THEN [st |-> "run", head |-> d[GetNextUnrequestedProof(d)].type,
          unreq |-> UnreqSpans(d)]
    ELSE TickOff

Init ==
    /\ \E c \in InitConfigs :
         /\ db = c.ledger
         /\ maxConcurrent = c.max
    /\ tasks = EmptyBag
    /\ pc = "A"
    /\ queue = << >>
    /\ now = 0
    /\ spawned = 0
    /\ lastRetry = NoRetry
    /\ tick = TickOff
    /\ call = NoCall

\* A pass returned an error: the tick ends, the next one starts with pass A.
TickAborted ==
    /\ pc' = "A"
    /\ queue' = << >>
    /\ tick' = TickOff

\* The second loop entered with every row in REQ, whatever its prover id.
EnterPendingAllRequested(d) ==
    LET reqs == RowsOf(d, {i \in Ids(d) : d[i].status = "REQ"})
    IN  /\ queue' = reqs
        /\ pc' = IF reqs = << >> THEN "B" ELSE "Apending"

\* ProcessPendingProofs, second loop: entered with the rows of
\* GetAllPendingProofs; the pass returns nil when the loop is over.
EnterPending(d) ==
    LET reqs == GetAllPendingProofs(d)
    IN  /\ queue' = reqs
        /\ pc' = IF reqs = << >> THEN "B" ELSE "Apending"

\* The second loop goes on with the next row, or is over.
NextPending ==
    /\ queue' = Tail(queue)
    /\ pc' = IF Tail(queue) = << >> THEN "B" ELSE "Apending"
    /\ tick' = tick

\* ProcessPendingProofs up to its first loop: the rows failed on the server.
PassAStart ==
    /\ pc = "A"
    /\ LET failedReqs == GetProofsFailedOnServer(db)
       IN  IF failedReqs = << >>
           THEN EnterPending(db)
           ELSE queue' = failedReqs /\ pc' = "Afailed"
    /\ tick' = TickStart(db, tasks, maxConcurrent)
    /\ lastRetry' = NoRetry
    /\ UNCHANGED <<db, tasks, now, maxConcurrent, call, spawned>>

\* ProcessPendingProofs, one turn of the first loop: RetryRequest(req).
PassARetryFailed ==
    /\ pc = "Afailed"
    /\ LET req == Row(db, Head(queue).id)
       IN  \E failAt \in RetryFailAts(db, req) :
             /\ db' = RetryRequest(db, req, failAt)
             /\ lastRetry' = RetryRecord(db, req, failAt, "failedOnServer")
             /\ IF failAt # 0 THEN TickAborted
                ELSE /\ tick' = tick
                     /\ IF Tail(queue) = << >> THEN EnterPending(db')
                        ELSE queue' = Tail(queue) /\ pc' = "Afailed"
    /\ UNCHANGED <<tasks, now, maxConcurrent, call, spawned>>

\* ProcessPendingProofs, one turn of the second loop: GetProofStatus fails.
PassAPollError ==
    /\ pc = "Apending"
    /\ TickAborted
    /\ lastRetry' = NoRetry
    /\ UNCHANGED <<db, tasks, now, maxConcurrent, call, spawned>>

\* The proofs the prover can send with PROOF_FULFILLED.
Proofs == {NoProof, SomeProof}

\* One turn of the second loop: the prover answers PROOF_FULFILLED.
PassAFulfilled ==
    /\ pc = "Apending"
    /\ LET req == Head(queue)
       IN  \E proof \in Proofs, dbErr \in BOOLEAN :
             IF dbErr \/ ~AddProofAllowed(db, req.id)
             THEN /\ TickAborted
                  /\ db' = db
                  /\ lastRetry' = NoRetry
             ELSE /\ db' = AddProof(db, req.id, proof)
                  /\ NextPending
                  /\ lastRetry' =
                         [NoRetry EXCEPT
                             !.polled = Polled("PROOF_FULFILLED", proof)]
    /\ UNCHANGED <<tasks, now, maxConcurrent, call, spawned>>

\* The statuses the prover can answer, other than PROOF_FULFILLED.
OtherStatuses == {"PROOF_UNCLAIMED", "PROOF_REQUESTED"}

\* timeout := uint64(time.Now().Unix()) > req.ProofRequestTime + ProofTimeout
TimedOut(req, t) == t > U64(req.reqTime + ProofTimeout)

\* The row is failed and retried.
ShouldFail(req, t, status) == TimedOut(req, t) \/ status = "PROOF_UNCLAIMED"

\* One turn of the second loop: any other answer; the row is failed and
\* retried when it timed out or the prover says PROOF_UNCLAIMED.
PassANotFulfilled ==
    /\ pc = "Apending"
    /\ LET req == Row(db, Head(queue).id)
       IN  \E status \in OtherStatuses :
             IF ShouldFail(Head(queue), now, status)
             THEN \E dbErr \in BOOLEAN :
                    IF dbErr
                    THEN /\ TickAborted
                         /\ lastRetry' = NoRetry
                         /\ db' = db
                    ELSE LET d1 == UpdateProofStatus(db, req.id, "FAILED", now)
                         IN  \E failAt \in RetryFailAts(d1, req) :
                               /\ db' = RetryRequest(d1, req, failAt)
                               /\ lastRetry' =
                                      [RetryRecord(d1, req, failAt, "poll")
                                         EXCEPT !.polled = Polled(status, NoProof)]
                               /\ IF failAt # 0 THEN TickAborted
                                  ELSE NextPending
             ELSE /\ NextPending
                  /\ lastRetry' =
                         [NoRetry EXCEPT !.polled = Polled(status, NoProof)]
                  /\ db' = db
    /\ UNCHANGED <<tasks, now, maxConcurrent, call, spawned>>

\* RequestQueuedProofs: a query of the ledger fails.
PassBError ==
    /\ pc = "B"
    /\ TickAborted
    /\ lastRetry' = NoRetry
    /\ UNCHANGED <<db, tasks, now, maxConcurrent, call, spawned>>

\* RequestQueuedProofs: nothing is queued.
PassBNone ==
    /\ pc = "B"
    /\ GetNextUnrequestedProof(db) = 0
    /\ pc' = "C"
    /\ lastRetry' = NoRetry
    /\ UNCHANGED <<db, tasks, queue, now, maxConcurrent, call, spawned, tick>>

\* The L1 checkpoint of checkpointBlockHash.
CheckpointNumber == 7
CheckpointHash == "0xhash"

\* Every AGG row taken as checkpointed.
CheckpointedAlways(p) == TRUE

\* nextProofToRequest.L1BlockHash != ""
Checkpointed(p) == p.l1hash # ""

\* RequestQueuedProofs: an AGG row without L1 block info is checkpointed and
\* left for the next tick.
PassBCheckpoint ==
    /\ pc = "B"
    /\ LET id == GetNextUnrequestedProof(db)
       IN  /\ id # 0
           /\ db[id].type = "AGG"
           /\ ~Checkpointed(db[id])
           /\ \E outcome \in {"ok", "checkpointErr", "attachErr"} :
                /\ db' = IF outcome = "ok"
                         THEN AddL1BlockInfoToAggRequest(db, db[id].start,
                                  db[id].end, CheckpointNumber, CheckpointHash)
                         ELSE db
                /\ IF outcome = "checkpointErr"
                   THEN TickAborted
                   ELSE pc' = "C" /\ queue' = queue /\ tick' = tick
    /\ lastRetry' = NoRetry
    /\ UNCHANGED <<tasks, now, maxConcurrent, call, spawned>>

\* The cap compared with the number of rows in UNREQ instead of REQ.
CapReachedCountsUnreq(d, max) ==
    GetNumberOfProofsWithStatus(d, "UNREQ") >= max

\* The cap on requested proofs is reached.
CapReached(d, max) == GetNumberOfProofsWithStatus(d, "REQ") >= max

\* RequestQueuedProofs: a SPAN row is next and the cap is reached.
PassBFull ==
    /\ pc = "B"
    /\ LET id == GetNextUnrequestedProof(db)
       IN  /\ id # 0
           /\ db[id].type = "SPAN"
           /\ CapReached(db, maxConcurrent)
    /\ pc' = "C"
    /\ lastRetry' = NoRetry
    /\ UNCHANGED <<db, tasks, queue, now, maxConcurrent, call, spawned, tick>>

\* The goroutine of RequestQueuedProofs, before its first statement.
NewTask(id) == [id |-> id, at |-> "start"]

\* RequestQueuedProofs: the goroutine that requests the proof is started.
PassBSpawn ==
    /\ pc = "B"
    /\ spawned < MaxSpawns
    /\ LET id == GetNextUnrequestedProof(db)
       IN  /\ id # 0
           /\ IF db[id].type = "AGG"
              THEN Checkpointed(db[id])
              ELSE ~CapReached(db, maxConcurrent)
           /\ tasks' = tasks (+) SetToBag({NewTask(id)})
    /\ spawned' = spawned + 1
    /\ pc' = "C"
    /\ lastRetry' = NoRetry
    /\ UNCHANGED <<db, queue, now, maxConcurrent, call, tick>>

\* The goroutine: UpdateProofStatus(id, "REQ"); it returns when that fails.
TaskUpdateReq ==
    /\ \E t \in BagToSet(tasks) :
         /\ t.at = "start"
         /\ \E dbErr \in BOOLEAN :
              IF dbErr
              THEN /\ tasks' = tasks (-) SetToBag({t})
                   /\ db' = db
                   /\ tick' = TickOff
              ELSE /\ tasks' = (tasks (-) SetToBag({t}))
                                 (+) SetToBag({[t EXCEPT !.at = "request"]})
                   /\ db' = UpdateProofStatus(db, t.id, "REQ", now)
                   /\ tick' = tick
    /\ lastRetry' = NoRetry
    /\ UNCHANGED <<pc, queue, now, maxConcurrent, call, spawned>>

\* The ids the prover can answer to a request.
ProofIds == {"", "id"}

\* The body of a request_agg_proof.
AggProofRequest(p, subproofs, l1BlockHash) ==
    [path |-> "request_agg_proof", row |-> p.id, subproofs |-> subproofs,
     head |-> l1BlockHash]

\* RequestSpanProof: the body it makes
RequestSpanProof(p, l2Start, l2End) ==
    {[path |-> "request_span_proof", row |-> p.id, start |-> l2Start,
      end |-> l2End]}

\* RequestAggProof querying the span proofs of [start, end].
RequestAggProofFromStart(d, p, start, end, l1BlockHash) ==
    {AggProofRequest(p, subproofs, l1BlockHash) :
        subproofs \in GetConsecutiveSpanProofs(d, start, end)}

\* RequestAggProof: it queries the span proofs of [start + 1, end]; the
\* bodies it can make, none when the query fails
RequestAggProof(d, p, start, end, l1BlockHash) ==
    {AggProofRequest(p, subproofs, l1BlockHash) :
        subproofs \in GetConsecutiveSpanProofs(d, U64(start + 1), end)}

\* RequestOPSuccinctProof up to the call of RequestProofFromServer: the
\* bodies it can make for the prover
RequestOPSuccinctProof(d, p) ==
    LET prevConfirmedBlock == U64(p.start - 1)
    IN  IF p.type = "AGG"
        THEN RequestAggProof(d, p, prevConfirmedBlock, p.end, p.l1hash)
        ELSE RequestSpanProof(p, prevConfirmedBlock, p.end)

\* RequestOPSuccinctProof can reach the prover: a SPAN always, an AGG when
\* its subproofs are found.
CanRequest(d, p) == RequestOPSuccinctProof(d, p) # {}

\* The goroutine: RequestOPSuccinctProof returns nil; keep tells whether the
\* body of the request is kept as history.
RequestAccepted(keep) ==
    /\ \E t \in BagToSet(tasks) :
         /\ t.at = "request"
         /\ CanRequest(db, Row(db, t.id))
         /\ \E proofId \in ProofIds :
              db' = SetProverRequestID(db, t.id, proofId)
         /\ tasks' = tasks (-) SetToBag({t})
         /\ \E body \in RequestOPSuccinctProof(db, Row(db, t.id)) :
              lastRetry' = IF keep THEN [NoRetry EXCEPT !.sent = body]
                           ELSE NoRetry
    /\ UNCHANGED <<pc, queue, now, maxConcurrent, call, spawned, tick>>

\* The goroutine: RequestOPSuccinctProof returns nil.
TaskRequestOk == RequestAccepted(FALSE)

\* The same step, with the body of the request kept.
TaskRequestSent == RequestAccepted(TRUE)

\* The goroutine: RequestOPSuccinctProof returns an error; the row is marked
\* FAILED (unless that write fails too) and retried. The cause is the call
\* of the prover timing out after 3 minutes ("timeout", for a request that
\* reaches the prover) or any other error ("error").
RequestFailed(cause) ==
    /\ \E t \in BagToSet(tasks) :
         /\ t.at = "request"
         /\ cause = "timeout" => CanRequest(db, Row(db, t.id))
         /\ \E dbErr \in BOOLEAN :
              LET d1 == IF dbErr THEN db
                        ELSE UpdateProofStatus(db, t.id, "FAILED", now)
                  req == Row(db, t.id)
                  bodies == IF CanRequest(db, req)
                            THEN RequestOPSuccinctProof(db, req)
                            ELSE {NoRequest}
              IN  \E failAt \in RetryFailAts(d1, req), body \in bodies :
                    /\ db' = RetryRequest(d1, req, failAt)
                    /\ lastRetry' =
                           [RetryRecord(d1, req, failAt, cause) EXCEPT
                               !.wrote = ~dbErr, !.sent = body]
         /\ tasks' = tasks (-) SetToBag({t})
    /\ tick' = TickOff
    /\ UNCHANGED <<pc, queue, now, maxConcurrent, call, spawned>>

\* The goroutine: RequestOPSuccinctProof returns an error, of any kind.
TaskRequestFailed == RequestFailed("error")

\* The goroutine: the error is told to be the timeout of the request.
TaskRequestTimedOut == RequestFailed("timeout")

\* DeriveAggProofs: the ledger after a call that meets no error.
DeriveAggProofs(d) ==
    LET from == U64(LatestBlockNumber + 1)
        res == TryCreateAggProofFromSpanProofs(d, from, NextBlockNumber)
    IN  IF res.created THEN Append(d, NewEntry("AGG", from, res.end, 0))
        ELSE d

\* DeriveAggProofs, as pass C of the tick
PassC ==
    /\ pc = "C"
    /\ \E dbErr \in BOOLEAN :
         db' = IF ~dbErr /\ Len(db) < MaxRecords THEN DeriveAggProofs(db)
               ELSE db
    /\ pc' = "A"
    /\ tick' = IF tick.st = "run" THEN [tick EXCEPT !.st = "done"] ELSE TickOff
    /\ lastRetry' = NoRetry
    /\ UNCHANGED <<tasks, queue, now, maxConcurrent, call, spawned>>

\* The wall clock advances.
Clock ==
    /\ now < MaxTime
    /\ now' = now + 1
    /\ lastRetry' = NoRetry
    /\ UNCHANGED <<db, tasks, pc, queue, maxConcurrent, call, spawned, tick>>

\* The steps of the driver tick in which the prover answers the poll.
PassesAnswered ==
    \/ PassAStart
    \/ PassARetryFailed
    \/ PassAFulfilled
    \/ PassANotFulfilled
    \/ PassBError
    \/ PassBNone
    \/ PassBCheckpoint
    \/ PassBFull
    \/ PassBSpawn
    \/ PassC

\* The steps of the driver tick: passes A, B and C.
Passes == PassesAnswered \/ PassAPollError

Next ==
    \/ Passes
    \/ TaskUpdateReq
    \/ TaskRequestOk
    \/ TaskRequestFailed

\* The runs in which every reading of the clock is the same.
Spec == Init /\ [][Next]_vars

\* The runs in which the clock advances.
SpecClock == Init /\ [][Next \/ Clock]_vars

\* The runs in which the timeouts of the request are told from its other
\* errors.
SpecTimeout == Init /\ [][Next \/ TaskRequestTimedOut]_vars

\* The steps of the goroutines.
Goroutines == TaskUpdateReq \/ TaskRequestOk \/ TaskRequestFailed

\* The runs in which the prover answers every poll, the ticker goes on
\* running ticks and every goroutine gets to run.
SpecFair ==
    /\ Init
    /\ [][PassesAnswered \/ Goroutines]_vars
    /\ WF_vars(PassesAnswered)
    /\ WF_vars(Goroutines)

\* The runs in which the body of every request the prover accepts is kept.
SpecRequest ==
    Init /\ [][Passes \/ TaskUpdateReq \/ TaskRequestSent
                  \/ TaskRequestFailed]_vars

(* ------------------- pass C on the ledgers of spans -------------------- *)

\* Highest L2 block of the SPAN rows pass C is run on.
MaxBlock == 3

\* A SPAN row the prover has fulfilled.
CompleteSpan(start, end) ==
    [NewEntry("SPAN", start, end, 0) EXCEPT
        !.status = "COMPLETE", !.proverId = "id", !.proof = SomeProof]

\* The SPAN rows of a ledger: queued by range derivation or by RetryRequest
\* (their ranges may overlap and repeat), fulfilled or not.
SpanRows ==
    UNION {{NewEntry("SPAN", r[1], r[2], 0), CompleteSpan(r[1], r[2])} :
             r \in {p \in (1 .. MaxBlock) \X (1 .. MaxBlock) : p[1] <= p[2]}}

\* The ledgers with room for one more row.
SpanLedgers == UNION {[1 .. k -> SpanRows] : k \in 0 .. (MaxRecords - 1)}

\* A tick reaches pass C with some ledger of SPAN rows.
InitAgg ==
    /\ db \in SpanLedgers
    /\ pc = "C"
    /\ maxConcurrent = 1
    /\ tasks = EmptyBag
    /\ queue = << >>
    /\ now = 0
    /\ spawned = 0
    /\ lastRetry = NoRetry
    /\ tick = TickOff
    /\ call = NoCall

\* Pass C alone, on every such ledger.
SpecAgg == InitAgg /\ [][PassC]_vars

(* --------------------------- package utils ---------------------------- *)

\* Batches and channels without batches that one call of GetSpanBatchRanges
\* can meet.
MaxBatches == 2

\* rollupCfg.Genesis.L2Time, rollupCfg.BlockTime, rollupCfg.Genesis.L2.Number
GenesisL2Time == 2
BlockTime == 2
GenesisL2Number == 1

\* TimestampToBlock
TimestampToBlock(l2Timestamp) ==
    U64((U64(l2Timestamp - GenesisL2Time) \div BlockTime) + GenesisL2Number)

\* What the loops of GetSpanBatchRanges meet, in order: a span batch with
\* its timestamp and block count, a batch that AsSpanBatch refuses, or a
\* channel without batches.
SpanBatch(ts, n) == [kind |-> "span", ts |-> ts, count |-> n]
SingularBatch(ts) == [kind |-> "singular", ts |-> ts, count |-> 0]
NoBatches == [kind |-> "none", ts |-> 0, count |-> 0]

\* The timestamps of the batches: from the L2 genesis on.
Timestamps == GenesisL2Time .. (GenesisL2Time + MaxBlock)

Batches ==
    {SpanBatch(ts, n) : ts \in Timestamps, n \in 1 .. MaxBatches}
    \cup {SingularBatch(ts) : ts \in Timestamps}
    \cup {NoBatches}

\* Go's built-in max and min
Max2(a, b) == IF a >= b THEN a ELSE b
Min2(a, b) == IF a <= b THEN a ELSE b

\* The range kept without clipping it to the requested blocks.
SpanBatchRangeUnclipped(startBlock, endBlock, batchStartBlock, batchEndBlock) ==
    [Start |-> batchStartBlock, End |-> batchEndBlock]

\* SpanBatchRange{Start: max(...), End: min(...)}
SpanBatchRange(startBlock, endBlock, batchStartBlock, batchEndBlock) ==
    [Start |-> Max2(startBlock, batchStartBlock),
     End |-> Min2(endBlock, batchEndBlock)]

\* GetSpanBatchRanges from the k-th batch on, with the ranges found so far.
\* log.Fatalf ends the process: no ranges are returned.
RECURSIVE SpanBatchRangesFrom(_, _, _, _, _)
SpanBatchRangesFrom(batches, k, startBlock, endBlock, ranges) ==
    IF k > Len(batches) THEN [fatal |-> FALSE, ranges |-> ranges]
    ELSE LET b == batches[k]
             batchStartBlock == TimestampToBlock(b.ts)
             batchEndBlock == U64(U64(batchStartBlock + b.count) - 1)
         IN  IF b.kind = "none" THEN [fatal |-> TRUE, ranges |-> << >>]
             ELSE IF b.kind # "span"
             THEN [fatal |-> FALSE,
                   ranges |-> Append(ranges, [Start |-> startBlock,
                                               End |-> endBlock])]
             ELSE IF batchStartBlock > endBlock \/ batchEndBlock < startBlock
             THEN SpanBatchRangesFrom(batches, k + 1, startBlock, endBlock,
                                      ranges)
             ELSE SpanBatchRangesFrom(batches, k + 1, startBlock, endBlock,
                      Append(ranges, SpanBatchRange(startBlock, endBlock,
                                         batchStartBlock, batchEndBlock)))

\* GetSpanBatchRanges
GetSpanBatchRanges(batches, startBlock, endBlock) ==
    SpanBatchRangesFrom(batches, 1, startBlock, endBlock, << >>)

\* The calls of GetSpanBatchRanges: the batches, and the requested blocks
\* [startBlock, endBlock].
RangeCalls ==
    {[fn |-> "GetSpanBatchRanges", done |-> FALSE,
      args |-> [batches |-> bs, startBlock |-> r[1], endBlock |-> r[2]],
      ret |-> [fatal |-> FALSE, ranges |-> << >>]] :
        bs \in UNION {[1 .. k -> Batches] : k \in 0 .. MaxBatches},
        r \in {p \in (1 .. MaxBlock) \X (1 .. MaxBlock) : p[1] <= p[2]}}

\* The call returns (or ends the process).
ReturnSpanBatchRanges ==
    /\ call.fn = "GetSpanBatchRanges"
    /\ ~call.done
    /\ call' = [call EXCEPT
                  !.done = TRUE,
                  !.ret = GetSpanBatchRanges(call.args.batches,
                              call.args.startBlock, call.args.endBlock)]
    /\ UNCHANGED <<db, tasks, pc, queue, now, maxConcurrent, spawned,
                   lastRetry, tick>>

\* Longest L1 block time, in seconds, in the calls of GetL1SearchBoundaries.
MaxL1BlockTime == 13

\* GetL1SearchBoundaries: failAt is the RPC that fails (0: none) among
\* OutputAtBlock(startBlock), BlockByNumber(startL1Origin),
\* BlockByNumber(startL1Origin - 1) and OutputAtBlock(endBlock). The L1
\* block numbers and times are far from 2^64; the division by an L1 block
\* time of 0 panics.
GetL1SearchBoundaries(a) ==
    LET startL1Origin == a.startL1Origin
        l1BlockTime == a.startBlockTime - a.prevBlockTime
    IN  IF a.failAt # 0
        THEN [err |-> TRUE, panic |-> FALSE, l1Start |-> 0, l1End |-> 0]
        ELSE IF l1BlockTime = 0
        THEN [err |-> FALSE, panic |-> TRUE, l1Start |-> 0, l1End |-> 0]
        ELSE [err |-> FALSE, panic |-> FALSE, l1Start |-> startL1Origin,
              l1End |-> a.endL1Origin + ((60 \div l1BlockTime) * 10)]

\* The calls of GetL1SearchBoundaries: the L1 origins of the two blocks, the
\* times of L1 blocks startL1Origin and startL1Origin - 1.
BoundaryCalls ==
    {[fn |-> "GetL1SearchBoundaries", done |-> FALSE,
      args |-> [startL1Origin |-> o, endL1Origin |-> o + d,
                startBlockTime |-> p + t, prevBlockTime |-> p,
                failAt |-> f],
      ret |-> [err |-> FALSE, panic |-> FALSE, l1Start |-> 0, l1End |-> 0]] :
        o \in 1 .. 2, d \in 0 .. 1, p \in 0 .. 1, t \in 0 .. MaxL1BlockTime,
        f \in 0 .. 4}

\* The call returns (or panics).
ReturnL1SearchBoundaries ==
    /\ call.fn = "GetL1SearchBoundaries"
    /\ ~call.done
    /\ call' = [call EXCEPT !.done = TRUE,
                            !.ret = GetL1SearchBoundaries(call.args)]
    /\ UNCHANGED <<db, tasks, pc, queue, now, maxConcurrent, spawned,
                   lastRetry, tick>>

\* CustomBytes32 is modelled with ByteLen bytes instead of 32, and the
\* padding to HexLen hex digits instead of 64.
ByteLen == 2
HexLen == 2 * ByteLen

\* The characters of the strings: hex digits and a letter that is none.
HexValue == [c \in {"0", "1"} |-> IF c = "0" THEN 0 ELSE 1]
HexChars == DOMAIN HexValue
Chars == HexChars \cup {"x"}

\* strings.TrimPrefix(s, "0x")
TrimPrefix0x(s) ==
    IF Len(s) >= 2 /\ s[1] = "0" /\ s[2] = "x" THEN SubSeq(s, 3, Len(s))
    ELSE s

\* The padding put after the digits instead of before them.
PadRight(s) ==
    IF Len(s) >= HexLen THEN s
    ELSE s \o [k \in 1 .. (HexLen - Len(s)) |-> "0"]

\* fmt.Sprintf("%064s", s): zeros before s up to the width; a longer string
\* is left as it is
Pad(s) ==
    IF Len(s) >= HexLen THEN s
    ELSE [k \in 1 .. (HexLen - Len(s)) |-> "0"] \o s

\* common.ParseHexOrString of "0x" and s (hexutil.Decode: the digits after
\* the prefix must be hex digits, in even number)
ParseHex(s) ==
    IF Len(s) % 2 # 0 \/ \E k \in 1 .. Len(s) : s[k] \notin HexChars
    THEN [err |-> TRUE, bytes |-> << >>]
    ELSE [err |-> FALSE,
          bytes |-> [k \in 1 .. (Len(s) \div 2) |->
                       16 * HexValue[s[2 * k - 1]] + HexValue[s[2 * k]]]]

\* CustomBytes32.UnmarshalJSON: a is the JSON value, a string or not
UnmarshalJSON(a) ==
    IF ~a.isString THEN [err |-> TRUE, bytes |-> << >>]
    ELSE LET parsed == ParseHex(Pad(TrimPrefix0x(a.s)))
         IN  IF parsed.err \/ Len(parsed.bytes) # ByteLen
             THEN [err |-> TRUE, bytes |-> << >>]
             ELSE parsed

\* The calls of UnmarshalJSON: strings of up to two digits more than HexLen,
\* with or without the prefix, and a JSON value that is no string.
UnmarshalCalls ==
    {[fn |-> "UnmarshalJSON", done |-> FALSE,
      args |-> [isString |-> TRUE, s |-> str],
      ret |-> [err |-> FALSE, bytes |-> << >>]] :
        str \in UNION {[1 .. k -> Chars] : k \in 0 .. (HexLen + 4)}}
    \cup {[fn |-> "UnmarshalJSON", done |-> FALSE,
           args |-> [isString |-> FALSE, s |-> << >>],
           ret |-> [err |-> FALSE, bytes |-> << >>]]}

\* The call returns.
ReturnUnmarshalJSON ==
    /\ call.fn = "UnmarshalJSON"
    /\ ~call.done
    /\ call' = [call EXCEPT !.done = TRUE, !.ret = UnmarshalJSON(call.args)]
    /\ UNCHANGED <<db, tasks, pc, queue, now, maxConcurrent, spawned,
                   lastRetry, tick>>

\* One call of a function of package utils, from its arguments to its
\* return; the proposer's ledger plays no part in it.
InitUtils ==
    /\ \/ call \in RangeCalls
       \/ call \in BoundaryCalls
       \/ call \in UnmarshalCalls
    /\ db = << >>
    /\ maxConcurrent = 1
    /\ tasks = EmptyBag
    /\ pc = "utils"
    /\ queue = << >>
    /\ now = 0
    /\ spawned = 0
    /\ lastRetry = NoRetry
    /\ tick = TickOff

NextUtils ==
    \/ ReturnSpanBatchRanges
    \/ ReturnL1SearchBoundaries
    \/ ReturnUnmarshalJSON

SpecUtils == InitUtils /\ [][NextUtils]_vars

(* ------------------------------ claims -------------------------------- *)

\* The request of the call of RetryRequest made by the last step.
Retried == db[lastRetry.id]

\* The rows that call inserted.
Inserted == SubSeq(db, lastRetry.base + 1, Len(db))

\* The last step called RetryRequest, which returned nil.
RetryReturnedNil == lastRetry.id # 0 /\ ~lastRetry.err

\* C1: a call of RetryRequest on a SPAN request [s, e] with e > s that
\* returns nil has inserted exactly two rows, both UNREQ SPAN rows without
\* prover id or proof, with the ranges [s, s + (e-s)/2] and
\* [s + (e-s)/2 + 1, e]; both ranges are non-empty, they do not overlap and
\* their union is [s, e].
C1_RetrySplitsSpan ==
    (RetryReturnedNil /\ Retried.type = "SPAN" /\ Retried.end > Retried.start)
    => LET s == Retried.start
           e == Retried.end
           mid == s + ((e - s) \div 2)
       IN  /\ Inserted = <<NewEntry("SPAN", s, mid, lastRetry.id),
                           NewEntry("SPAN", mid + 1, e, lastRetry.id)>>
           /\ s <= mid /\ mid + 1 <= e
           /\ (s .. mid) \cap ((mid + 1) .. e) = {}
           /\ (s .. mid) \cup ((mid + 1) .. e) = s .. e

C1_Witness ==
    /\ RetryReturnedNil
    /\ Retried.type = "SPAN"
    /\ Retried.end > Retried.start
    /\ Len(Inserted) = 2

\* C2 (as claimed): a call of RetryRequest on a SPAN request of a single
\* block returns an error and inserts no row, and no row of the ledger has
\* start_block > end_block.
C2_SingleBlockNotSplit ==
    /\ (lastRetry.id # 0 /\ Retried.type = "SPAN"
            /\ Retried.start = Retried.end)
         => (lastRetry.err /\ Inserted = << >>)
    /\ \A i \in Ids(db) : db[i].start <= db[i].end

\* C3: a call of RetryRequest on an AGG request [s, e] that returns nil has
\* inserted exactly one row, an UNREQ AGG row with the range [s, e], and no
\* SPAN row.
C3_RetryKeepsAgg ==
    (RetryReturnedNil /\ Retried.type = "AGG")
    => Inserted = <<NewEntry("AGG", Retried.start, Retried.end, lastRetry.id)>>

C3_Witness ==
    /\ RetryReturnedNil
    /\ Retried.type = "AGG"
    /\ Len(Inserted) = 1
    /\ Retried.status = "FAILED"

\* C4 (as claimed): no two distinct SPAN rows whose status is REQ or
\* COMPLETE have overlapping ranges.
C4_NoOverlappingSpans ==
    \A i, j \in Ids(db) :
        (/\ i # j
         /\ db[i].type = "SPAN" /\ db[j].type = "SPAN"
         /\ db[i].status \in {"REQ", "COMPLETE"}
         /\ db[j].status \in {"REQ", "COMPLETE"})
        => ~Overlap(db[i], db[j])

\* The rows the retry policy inserted for row i.
Successors(i) == {j \in Ids(db) : db[j].parent = i}

\* C5 (as claimed): the retry policy is applied to a FAILED row once: a
\* FAILED SPAN row has at most two successors and a FAILED AGG row at most
\* one, however many ticks of pass A run.
C5_RetriedOnce ==
    \A i \in Ids(db) :
        Cardinality(Successors(i)) <= IF db[i].type = "SPAN" THEN 2 ELSE 1

\* The status changes of the state machine UNREQ -> REQ -> (COMPLETE | FAILED).
Allowed(from, to) ==
    \/ from = to
    \/ from = "UNREQ" /\ to = "REQ"
    \/ from = "REQ" /\ to \in {"COMPLETE", "FAILED"}

\* C6 (as claimed): every status change of a row follows
\* UNREQ -> REQ -> (COMPLETE | FAILED); COMPLETE and FAILED are final.
C6_StatusMachine ==
    [][\A i \in Ids(db) : Allowed(db[i].status, db'[i].status)]_vars

\* C7 (as claimed): the number of SPAN rows in REQ never exceeds
\* MaxConcurrentProofRequests.
C7_SpanCap ==
    Cardinality(SpansWithStatus(db, "REQ")) <= maxConcurrent

\* C9 (as claimed): every COMPLETE row has a non-empty proof and a non-empty
\* prover_request_id.
C9_CompleteHasProof ==
    \A i \in Ids(db) :
        db[i].status = "COMPLETE"
        => (Len(db[i].proof) > 0 /\ db[i].proverId # "")

\* A tick that started with no row in REQ, no goroutine in flight and more
\* UNREQ SPAN rows than the cap has run passes A, B and C without an error,
\* and its goroutine has returned with its request accepted.
TickDone == tick.st = "done" /\ tasks = EmptyBag

\* C8 (as claimed): such a tick leaves exactly MaxConcurrentProofRequests
\* SPAN rows in REQ and the other ones in UNREQ.
C8_OneTickFillsCap ==
    TickDone
    => /\ Cardinality(SpansWithStatus(db, "REQ")) = maxConcurrent
       /\ \A i \in tick.unreq : db[i].status \in {"REQ", "UNREQ"}

\* C8 (amended): when the UNREQ row with the lowest id is a SPAN row, such a
\* tick leaves exactly one SPAN row in REQ, that row, and every other SPAN
\* row that was UNREQ still UNREQ.
C8_OneTickRequestsOne ==
    (TickDone /\ tick.head = "SPAN")
    => LET first == CHOOSE i \in tick.unreq : \A j \in tick.unreq : i <= j
       IN  /\ SpansWithStatus(db, "REQ") = {first}
           /\ \A i \in tick.unreq \ {first} : db[i].status = "UNREQ"

C8_Witness ==
    /\ TickDone
    /\ tick.head = "SPAN"
    /\ Cardinality(tick.unreq) > maxConcurrent
    /\ maxConcurrent > 1
    /\ Cardinality(SpansWithStatus(db, "REQ")) = 1

C11_AggCheckpointed ==
    \A i \in Ids(db) :
        (db[i].type = "AGG" /\ db[i].status # "UNREQ")
        => (db[i].l1hash # "" /\ db[i].l1num > 0)

C11_Witness ==
    \E i \in Ids(db) :
        /\ db[i].type = "AGG"
        /\ db[i].parent # 0
        /\ db[i].status = "REQ"
        /\ db[i].l1hash = CheckpointHash

\* C12 (as claimed): a row in REQ whose proof_request_time + ProofTimeout is
\* before the clock is FAILED and retried by the next run of pass A: a run
\* that finds no row to retry or poll leaves no such row behind (rows whose
\* goroutine is still in flight set aside), and the turn
\* of the second loop that polls such a row marks it FAILED and calls
\* RetryRequest on it.
C12_TimedOutFailed ==
    [][/\ (pc = "A" /\ pc' = "B")
           => \A i \in Ids(db) :
                ~(/\ db[i].status = "REQ"
                  /\ TimedOut(db[i], now)
                  /\ \A t \in BagToSet(tasks) : t.id # i)
       /\ (pc = "Apending" /\ pc' \in {"Apending", "B"})
           => LET id == Head(queue).id
              IN  (db[id].status = "REQ" /\ TimedOut(db[id], now))
                  => (db'[id].status = "FAILED" /\ lastRetry'.id = id)]_vars

\* C13 (as claimed): DeriveAggProofs run twice in a row, with the same
\* answers of the oracle and the same COMPLETE SPAN rows, leaves the ledger
\* as one run does: the second run inserts no further AGG row.
C13_PassCIdempotent ==
    pc = "C" => DeriveAggProofs(DeriveAggProofs(db)) = DeriveAggProofs(db)

\* The COMPLETE SPAN rows of the ledger tile [from, e] without gap or overlap.
RECURSIVE Tiled(_, _, _)
Tiled(d, from, e) ==
    \E i \in Ids(d) :
        /\ d[i].type = "SPAN" /\ d[i].status = "COMPLETE"
        /\ d[i].end = e
        /\ from <= d[i].start /\ d[i].start <= e
        /\ (d[i].start = from \/ Tiled(d, from, d[i].start - 1))

\* The ends of the ranges [from, e] that COMPLETE SPAN rows tile.
TileEnds(d, from) == {e \in {d[i].end : i \in Ids(d)} : Tiled(d, from, e)}

Max(S) == CHOOSE x \in S : \A y \in S : y <= x

\* C14 (as claimed): pass C tries from = latest + 1 and min_to = next, and
\* it decides to create an AGG row if and only if COMPLETE SPAN rows tile
\* some [from, end] with end >= min_to; the row it inserts is the UNREQ AGG
\* row [from, end] with the greatest such end, and it inserts nothing else.
C14_AggIffTiled ==
    [][(pc = "C" /\ pc' = "A")
       => LET from == LatestBlockNumber + 1
              ends == TileEnds(db, from)
              can == ends # {} /\ Max(ends) >= NextBlockNumber
              res == TryCreateAggProofFromSpanProofs(db, from,
                                                     NextBlockNumber)
          IN  /\ res.created <=> can
              /\ db' # db
                   => /\ can
                      /\ db' = Append(db, NewEntry("AGG", from, Max(ends), 0))]_vars

\* Block b is covered by a row a later tick acts on or that is done: an UNREQ
\* row, a REQ row with a prover id or with its goroutine in flight, a row
\* GetProofsFailedOnServer returns, or a COMPLETE row.
Covered(b) ==
    \E j \in Ids(db) :
        /\ db[j].start <= b /\ b <= db[j].end
        /\ \/ db[j].status \in {"UNREQ", "COMPLETE"}
           \/ db[j].status = "REQ" /\ db[j].proverId # ""
           \/ db[j].status = "REQ" /\ \E t \in BagToSet(tasks) : t.id = j
           \/ db[j].status = "FAILED" /\ db[j].proverId = ""

\* C15 (as claimed): when RetryRequest returns an error part-way, every
\* block of the request it was called on is still covered by a row that a
\* later tick acts on.
C15_NoWorkLost ==
    (lastRetry.id # 0 /\ lastRetry.err)
    => \A b \in Retried.start .. Retried.end : Covered(b)

\* C16 (as claimed): a timeout of a call of the prover aborts only that
\* call. When the request of the goroutine times out, the row keeps the
\* status, prover id and proof it had before the call and no row is
\* inserted; when pass A stops on a poll that failed, the ledger is as it
\* was.
C16_TimeoutKeepsRecord ==
    [][/\ lastRetry'.cause = "timeout"
           => /\ db'[lastRetry'.id] = db[lastRetry'.id]
              /\ Len(db') = Len(db)
       /\ (pc = "Apending" /\ pc' = "A" /\ lastRetry'.id = 0)
           => db' = db]_vars

\* A call of GetSpanBatchRanges has returned.
RangesReturned ==
    call.fn = "GetSpanBatchRanges" /\ call.done /\ ~call.ret.fatal

\* The L2 blocks of a span batch, [t2b(ts), t2b(ts) + n - 1], and the blocks
\* of it that are requested.
BatchBlocks(b) ==
    LET first == ((b.ts - GenesisL2Time) \div BlockTime) + GenesisL2Number
    IN  first .. (first + b.count - 1)

RequestedOf(b) ==
    BatchBlocks(b) \cap (call.args.startBlock .. call.args.endBlock)

MeetsRequest(b) == RequestedOf(b) # {}

Min(S) == CHOOSE x \in S : \A y \in S : x <= y

\* C17: when every batch is a span batch, GetSpanBatchRanges returns one
\* range for each batch whose blocks meet [startBlock, endBlock], in the
\* order of the batches: the intersection of the two intervals. Every range
\* has startBlock <= Start <= End <= endBlock, and a batch that does not
\* meet the requested blocks gives no range.
C17_RangesAreIntersections ==
    (/\ call.fn = "GetSpanBatchRanges"
     /\ call.done
     /\ \A k \in 1 .. Len(call.args.batches) :
            call.args.batches[k].kind = "span")
    => LET kept == SelectSeq(call.args.batches, MeetsRequest)
           ranges == call.ret.ranges
       IN  /\ ~call.ret.fatal
           /\ Len(ranges) = Len(kept)
           /\ \A k \in 1 .. Len(kept) :
                /\ ranges[k].Start = Min(RequestedOf(kept[k]))
                /\ ranges[k].End = Max(RequestedOf(kept[k]))
                /\ call.args.startBlock <= ranges[k].Start
                /\ ranges[k].Start <= ranges[k].End
                /\ ranges[k].End <= call.args.endBlock

C17_Witness ==
    /\ RangesReturned
    /\ Len(call.args.batches) = 2
    /\ \A k \in 1 .. 2 : call.args.batches[k].kind = "span"
    /\ Len(call.ret.ranges) = 1
    /\ \E k \in 1 .. 2 :
         /\ MeetsRequest(call.args.batches[k])
         /\ RequestedOf(call.args.batches[k])
              # BatchBlocks(call.args.batches[k])

\* The call met a batch that is no span batch, after span batches only.
MetUnparseable ==
    /\ RangesReturned
    /\ \E k \in 1 .. Len(call.args.batches) :
         /\ call.args.batches[k].kind = "singular"
         /\ \A j \in 1 .. (k - 1) : call.args.batches[j].kind = "span"

\* C18 (as claimed): when GetSpanBatchRanges meets a batch that is no span
\* batch, it returns exactly one range, [startBlock, endBlock], whatever
\* span batches came before.
C18_FallbackIsSingleRange ==
    MetUnparseable
    => call.ret.ranges = <<[Start |-> call.args.startBlock,
                            End |-> call.args.endBlock]>>

\* C19 (as claimed): for an L1 block time t >= 1, GetL1SearchBoundaries
\* returns (startL1Origin, endL1Origin + floor(600 / t)).
C19_TenMinutesOfBlocks ==
    (/\ call.fn = "GetL1SearchBoundaries"
     /\ call.done
     /\ call.args.failAt = 0
     /\ call.args.startBlockTime - call.args.prevBlockTime >= 1)
    => LET t == call.args.startBlockTime - call.args.prevBlockTime
       IN  /\ ~call.ret.err /\ ~call.ret.panic
           /\ call.ret.l1Start = call.args.startL1Origin
           /\ call.ret.l1End = call.args.endL1Origin + (600 \div t)

\* The call of UnmarshalJSON was made on "0x" followed by hex digits only.
PrefixedHex ==
    /\ call.fn = "UnmarshalJSON"
    /\ call.done
    /\ call.args.isString
    /\ Len(call.args.s) >= 2
    /\ call.args.s[1] = "0" /\ call.args.s[2] = "x"
    /\ \A k \in 3 .. Len(call.args.s) : call.args.s[k] \in HexChars

\* The number a string of hex digits, or a string of bytes, writes.
RECURSIVE DigitsValue(_)
DigitsValue(h) ==
    IF h = << >> THEN 0
    ELSE 16 * DigitsValue(SubSeq(h, 1, Len(h) - 1)) + HexValue[h[Len(h)]]

RECURSIVE BytesValue(_)
BytesValue(bs) ==
    IF bs = << >> THEN 0
    ELSE 256 * BytesValue(SubSeq(bs, 1, Len(bs) - 1)) + bs[Len(bs)]

\* h after zeros, HexLen digits long.
ZeroPadded(h) ==
    [k \in 1 .. HexLen |->
        IF k <= HexLen - Len(h) THEN "0" ELSE h[k - (HexLen - Len(h))]]

\* C20: decoding "0x" + h, for h of 1 to HexLen hex digits, gives without
\* error the ByteLen bytes that write the number h writes, the same value as
\* decoding "0x" + h padded with zeros on the left to HexLen digits; with
\* more than HexLen digits the decoding returns an error.
C20_PaddedDecoding ==
    PrefixedHex
    => LET h == SubSeq(call.args.s, 3, Len(call.args.s))
       IN  /\ (1 <= Len(h) /\ Len(h) <= HexLen)
                => /\ ~call.ret.err
                   /\ Len(call.ret.bytes) = ByteLen
                   /\ BytesValue(call.ret.bytes) = DigitsValue(h)
                   /\ call.ret = UnmarshalJSON(
                          [isString |-> TRUE,
                           s |-> <<"0", "x">> \o ZeroPadded(h)])
           /\ Len(h) > HexLen => call.ret.err

C20_Witness ==
    /\ PrefixedHex
    /\ Len(call.args.s) = 3
    /\ ~call.ret.err
    /\ BytesValue(call.ret.bytes) = 1

\* A turn of the second loop of pass A whose poll succeeded and that met no
\* error of the ledger: the loop goes on or is over.
PolledTurn ==
    /\ pc = "Apending"
    /\ pc' \in {"Apending", "B"}
    /\ lastRetry'.polled.status # "none"

\* The row polled by that turn was pending when it was polled.
PolledPending ==
    LET id == Head(queue).id
    IN  db[id].status = "REQ" /\ db[id].proverId # ""

\* What such a turn does to the row, decided on the proof_request_time of
\* req: the row is moved to FAILED and retried if and only if the polled
\* status is not PROOF_FULFILLED and (the clock is past proof_request_time +
\* ProofTimeout or the status is PROOF_UNCLAIMED); it is moved to COMPLETE
\* with the returned proof if and only if the status is PROOF_FULFILLED; in
\* every other case the row is left as it was and no row is inserted.
PollDecides(req) ==
    LET id == Head(queue).id
        polled == lastRetry'.polled
        fulfilled == polled.status = "PROOF_FULFILLED"
        fails == /\ ~fulfilled
                 /\ \/ TimedOut(req, now)
                    \/ polled.status = "PROOF_UNCLAIMED"
        failed == /\ db'[id].status = "FAILED"
                  /\ lastRetry'.id = id
        completed == /\ db'[id].status = "COMPLETE"
                     /\ db'[id].proof = polled.proof
    IN  /\ failed <=> fails
        /\ completed <=> fulfilled
        /\ (~fails /\ ~fulfilled) => db' = db

\* C21 (as claimed): a turn of pass A on a pending row whose poll succeeds
\* fails and retries the row if and only if the status is not PROOF_FULFILLED
\* and (now > the row's proof_request_time + ProofTimeout or the status is
\* PROOF_UNCLAIMED), completes it with the returned proof if and only if the
\* status is PROOF_FULFILLED, and otherwise leaves the ledger as it was.
C21_PollDecides ==
    [][(PolledTurn /\ PolledPending) => PollDecides(db[Head(queue).id])]_vars

\* The same with the proof_request_time the loop of pass A holds for the row,
\* as GetAllPendingProofs returned it when the loop started.
PollDecidesOnSnapshot ==
    [][(PolledTurn /\ PolledPending) => PollDecides(Head(queue))]_vars

\* The body the last step made for the prover.
Sent == lastRetry.sent

\* C22: the body of a request for an AGG row [s, e] holds exactly the
\* proofs of the COMPLETE SPAN rows that tile [s, e]; when the request of an
\* AGG row fails, no body was made if and only if no such tiling exists, and
\* then the row is FAILED (when that write went through) with the retry
\* policy applied, one UNREQ AGG row of the same range; the body of a request
\* for a SPAN row [s, e] has start = s - 1 and end = e.
C22_RequestBodies ==
    /\ Sent.path = "request_agg_proof"
         => LET r == db[Sent.row]
            IN  \E T \in Tilings(db, r.start, r.end) :
                    Sent.subproofs = ProofsOf(db, T)
    /\ Sent.path = "request_span_proof"
         => LET r == db[Sent.row]
            IN  Sent.start = r.start - 1 /\ Sent.end = r.end
    /\ (lastRetry.cause = "error" /\ Retried.type = "AGG")
         => /\ Sent = NoRequest
                 <=> Tilings(db, Retried.start, Retried.end) = {}
            /\ Sent = NoRequest
                 => /\ lastRetry.wrote => Retried.status = "FAILED"
                    /\ ~lastRetry.err
                         => Inserted = <<NewEntry("AGG", Retried.start,
                                                  Retried.end, lastRetry.id)>>

C22_Witness ==
    /\ Sent.path = "request_agg_proof"
    /\ Sent.subproofs = <<SomeProof>>
    /\ db[Sent.row].status = "REQ"
    /\ db[Sent.row].proverId = "id"

\* The request of an AGG row failed for want of a tiling.
AggWithoutSubproofs ==
    /\ lastRetry.cause = "error"
    /\ Retried.type = "AGG"
    /\ Sent = NoRequest
    /\ Retried.status = "FAILED"
    /\ Len(Inserted) = 1

\* The goroutines in flight for row i.
TasksOf(i) ==
    BagCardinality([t \in {u \in BagToSet(tasks) : u.id = i}
                      |-> CopiesIn(t, tasks)])

\* C23 (as claimed): pass B starts no second goroutine for a row whose
\* goroutine is still in flight, so that no row is requested from the prover
\* twice: at every moment a row has at most one goroutine.
C23_DispatchedOnce ==
    \A i \in Ids(db) : TasksOf(i) <= 1

\* The row that range derivation queued and from which row i descends by
\* retries.
RECURSIVE RootOf(_)
RootOf(i) == IF db[i].parent = 0 THEN i ELSE RootOf(db[i].parent)

\* The rows the retries of row r and of its successors inserted.
Descendants(r) == {j \in Ids(db) : j # r /\ RootOf(j) = r}

\* C24 (as claimed): the retries of a SPAN row [s, e] of n blocks and of its
\* successors insert at most 2n - 2 rows, every one with a range inside
\* [s, e].
C24_RetryBounded ==
    \A r \in Ids(db) :
        (db[r].type = "SPAN" /\ db[r].parent = 0)
        => LET n == db[r].end - db[r].start + 1
           IN  /\ Cardinality(Descendants(r)) <= 2 * n - 2
               /\ \A j \in Descendants(r) :
                    db[r].start <= db[j].start /\ db[j].end <= db[r].end

\* Row i is in REQ.
Requested(i) == i \in Ids(db) /\ db[i].status = "REQ"

\* Row i is COMPLETE or FAILED.
Settled(i) == i \in Ids(db) /\ db[i].status \in {"COMPLETE", "FAILED"}

\* C25 (as claimed): when the ticks go on, the goroutines get to run and the
\* prover answers every call, every row that reaches REQ eventually reaches
\* COMPLETE or FAILED, the rows left in REQ with an empty prover id by a
\* goroutine that could not write FAILED included.
C25_RequestedSettles ==
    \A i \in 1 .. MaxRecords : Requested(i) ~> Settled(i)

\* Row i is in REQ with an empty prover id, none of its goroutines is in
\* flight and the running loop of pass A does not hold it.
Stranded(i) ==
    /\ db[i].status = "REQ"
    /\ db[i].proverId = ""
    /\ TasksOf(i) = 0
    /\ \A k \in 1 .. Len(queue) : queue[k].id # i

\* No step acts on such a row: it is in REQ with an empty prover id ever
\* after.
StrandedForever ==
    [][\A i \in Ids(db) : Stranded(i) => Stranded(i)']_vars
====
